---- MODULE Spec2Model ----
(***************************************************************************)
(* ShellJob (job package) of go-quartz: Execute, setJobResult,             *)
(* terminateProcess and the read accessors, with the goroutines Execute    *)
(* starts (the cmd.Wait watcher, the callback) and the parts of the        *)
(* environment Execute races with (the context, the child process, the     *)
(* context watcher of exec.CommandContext).                                *)
(***************************************************************************)
EXTENDS Integers, Sequences, FiniteSets, TLC

\* Bounds of the model.
MaxRuns == 2          \* Execute calls made on the one ShellJob

Runs == 1..MaxRuns

\* Status (StatusNA is the value NewShellJob sets).
StatusNA == "NA"
StatusOK == "OK"
StatusFailure == "Failure"
StatusTimeout == "Timeout"

\* error values: nil, the error of cmd.Start, context.DeadlineExceeded,
\* context.Canceled, *exec.ExitError.
Nil == "nil"
ErrSpawn == "spawn"
ErrDeadline == "deadline"
ErrCanceled == "canceled"
ErrExit == "exit"

\* Exit codes a command of the model can exit with by itself.
ExitCodes == {0, 3}
\* os.ProcessState.ExitCode() of a process ended by a signal.
Signaled == -1
\* cmd.ProcessState == nil
NoState == <<>>

\* Commands given to NewShellJob; "" is the empty command.
Commands == {"", "job.sh"}
\* JobTimeout, the timeout NewShellJob sets, in seconds.
JobTimeout == 30
\* Durations given to WithTimeout, in seconds.
TimeoutOpts == {-1, 0, 5}

VARIABLES
    job,         \* the ShellJob: "none" before NewShellJob, "built", "panicked"
    cmd,         \* sh.cmd
    timeout,     \* sh.timeout
    shellOnce,   \* shellOnce: [done, m |-> call running the lookup or 0, lookups]
    shellPath,   \* shellPath
    shell,       \* what getShell returned to each call
    cbres,       \* what the callback of each call read with Result()
    ct,          \* the CronTrigger and its latest NextFireTime call
    hasCallback, \* sh.callback != nil (WithCallback)
    callers,     \* number of goroutines that call Execute on the job
    nextRun,     \* number of Execute calls made so far
    pc,          \* position of each Execute call
    ctx,         \* the context of the call: "none", "live", or its Err()
    atExpiry,    \* state of the process when ctx became done
    proc,        \* the child process: [st, code, starts]
    wctx,        \* exec's context watcher: "none", "armed", "killed", "finished"
    done,        \* the done channel and cmd.ProcessState: [st, state, err]
    sigs,        \* signals terminateProcess sent to the process group
    loc,         \* locals of the call: branch taken, exitCode, status, finalErr
    ret,         \* value Execute returned
    cb,          \* the callback goroutine of the call
    crashed,     \* an unrecovered panic has ended the program: nothing runs
    mtx,         \* sh.mtx: [w |-> run holding Lock or 0, r |-> readers]
    result,      \* sh.result, each field with the number of the commit that wrote it
    jobStatus,   \* sh.jobStatus, with the number of the commit that wrote it
    order,       \* order[r]: number of the commit of run r, in the order of Lock
    last,        \* the latest commit: its number, run, exit code and status
    rd           \* the reading goroutine

vars == <<job, cmd, timeout, shellOnce, shellPath, shell, cbres, ct,
          hasCallback, callers, nextRun, pc, ctx, atExpiry, proc, wctx, done,
          sigs, loc, ret, cb, crashed, mtx, result, jobStatus, order, last, rd>>

jobVars == <<mtx, result, jobStatus, order, last>>

\* What no step of Execute changes: the job as NewShellJob built it, the
\* number of callers, the CronTrigger.
conf == <<job, cmd, timeout, hasCallback, callers, ct>>

shellVars == <<shellOnce, shellPath, shell>>

Field(v, by) == [v |-> v, by |-> by]

NoProc == [st |-> "none", code |-> 0, starts |-> 0]
NoDone == [st |-> "none", state |-> NoState, err |-> Nil]
NoRead == [acc |-> "none", got |-> <<>>]
NoLoc == [path |-> "none", exitCode |-> 0, status |-> StatusNA, finalErr |-> Nil]
NoCbRes == [pc |-> "none", commit |-> 0, cur |-> <<>>, got |-> <<>>]
\* An instant, as the epoch milliseconds min * 60000 + ms.
Instant(min, ms) == [min |-> min, ms |-> ms]
NoTrigger == [expression |-> "", calls |-> 0, prev |-> Instant(0, 0),
              now |-> Instant(0, 0), next |-> Instant(0, 0), err |-> Nil]

\* No CronTrigger is used.
NoCron == ct = NoTrigger

\* NewShellJob, lines 39-49: status NA, an empty result, the options applied
\* (WithCallback or none); the timeout is JobTimeout.
NewShellJob ==
    /\ job = "built"
    /\ cmd \in Commands \ {""}
    /\ timeout = JobTimeout
    /\ hasCallback \in BOOLEAN
    /\ cbres = [r \in Runs |-> NoCbRes]
    /\ crashed = FALSE
    /\ mtx = [w |-> 0, r |-> 0]
    /\ result = [stdout |-> Field(0, 0), stderr |-> Field(0, 0),
                 exitCode |-> Field(0, 0)]
    /\ jobStatus = Field(StatusNA, 0)
    /\ order = [r \in Runs |-> 0]
    /\ last = [seq |-> 0, run |-> 0, exitCode |-> 0, status |-> StatusNA]
    /\ cb = [r \in Runs |-> "none"]
    /\ ret = [r \in Runs |-> "none"]
    /\ rd = [pc |-> "idle", cur |-> <<>>, prev |-> NoRead, latest |-> NoRead]

\* No Execute call made yet: shellOnce and shellPath as declared, lines 73-76.
NoCalls ==
    /\ shellOnce = [done |-> FALSE, m |-> 0, lookups |-> 0]
    /\ shellPath = "bash"
    /\ shell = [r \in Runs |-> "none"]
    /\ nextRun = 0
    /\ pc = [r \in Runs |-> "idle"]
    /\ ctx = [r \in Runs |-> "none"]
    /\ atExpiry = [r \in Runs |-> "none"]
    /\ proc = [r \in Runs |-> NoProc]
    /\ wctx = [r \in Runs |-> "none"]
    /\ done = [r \in Runs |-> NoDone]
    /\ sigs = [r \in Runs |-> <<>>]
    /\ loc = [r \in Runs |-> NoLoc]

\* A new job whose Execute is called by one goroutine, a call after the
\* other.
Init == NewShellJob /\ callers = 1 /\ NoCalls /\ NoCron

\* A new job whose Execute is called by two goroutines.
InitConcurrent == NewShellJob /\ callers = 2 /\ NoCalls /\ NoCron

InFlight == {r \in Runs : pc[r] \notin {"idle", "returned"}}

\* Execute is called on the job, with a context that is live or cancelled
\* already; lines 93-107 derive the context of the call from it when
\* sh.timeout > 0, and use it as it is otherwise.
Call(r) ==
    /\ ~crashed
    /\ job = "built"
    /\ r = nextRun + 1
    /\ r \in Runs
    /\ Cardinality(InFlight) < callers
    /\ nextRun' = r
    /\ \E c \in {"live", ErrCanceled} : ctx' = [ctx EXCEPT ![r] = c]
    /\ pc' = [pc EXCEPT ![r] = "getShell"]
    /\ UNCHANGED <<conf, shellVars, cbres, atExpiry, proc, wctx, done, sigs, loc,
                   ret, cb, crashed, jobVars, rd>>

\* The deadline of context.WithTimeout passes, or the caller cancels its
\* context: ctx.Done() is closed. A goroutine parked in the select of line 124
\* is woken with the ctx.Done() case.
CtxDone(r, e) ==
    /\ ~crashed
    /\ ctx[r] = "live"
    /\ ctx' = [ctx EXCEPT ![r] = e]
    /\ atExpiry' = [atExpiry EXCEPT ![r] = proc[r].st]
    /\ pc' = [pc EXCEPT ![r] = IF pc[r] = "parked" THEN "term" ELSE pc[r]]
    /\ UNCHANGED <<conf, shellVars, cbres, nextRun, proc, wctx, done, sigs, loc, ret, cb,
                   crashed, jobVars, rd>>

\* The deadline context.WithTimeout (line 96) set passes.
TimeoutExpire(r) ==
    /\ timeout > 0
    /\ pc[r] \notin {"getShell", "lookPath", "shellRet"}
    /\ CtxDone(r, ErrDeadline)

CallerCancel(r) == CtxDone(r, ErrCanceled)

OnceAlways == TRUE

\* sync.Once: the function has not been run.
OnceFresh == ~shellOnce.done

\* getShell, lines 78-86. shellOnce.Do returns at once when the lookup has
\* been done; else the first caller takes the mutex of the Once and runs the
\* function, and the others wait for it. exec.LookPath finds /bin/bash or
\* not. getShell then returns shellPath.
GetShell(r) ==
    /\ ~crashed
    /\ \/ /\ pc[r] = "getShell"
          /\ ~OnceFresh
          /\ pc' = [pc EXCEPT ![r] = "shellRet"]
          /\ UNCHANGED shellVars
       \/ /\ pc[r] = "getShell"
          /\ OnceFresh
          /\ shellOnce.m = 0
          /\ shellOnce' = [shellOnce EXCEPT !.m = r]
          /\ pc' = [pc EXCEPT ![r] = "lookPath"]
          /\ UNCHANGED <<shellPath, shell>>
       \/ /\ pc[r] = "lookPath"
          /\ \E found \in BOOLEAN : shellPath' = IF found THEN shellPath ELSE "sh"
          /\ shellOnce' = [done |-> TRUE, m |-> 0, lookups |-> shellOnce.lookups + 1]
          /\ pc' = [pc EXCEPT ![r] = "shellRet"]
          /\ UNCHANGED shell
       \/ /\ pc[r] = "shellRet"
          /\ shell' = [shell EXCEPT ![r] = shellPath]
          /\ pc' = [pc EXCEPT ![r] = "start"]
          /\ UNCHANGED <<shellOnce, shellPath>>
    /\ UNCHANGED <<conf, cbres, nextRun, ctx, atExpiry, proc, wctx, done, sigs, loc,
                   ret, cb, crashed, jobVars, rd>>

\* cmd.Start, lines 110-114, and the launch of the watcher, lines 117-120.
\* Start fails with ctx.Err() when the context is done already, or with an
\* error of its own (no shell); on failure the call commits (-1, Failure).
StartFailsNoCommit(r, e) ==
    /\ loc' = [loc EXCEPT ![r] = [path |-> "startfail", exitCode |-> -1,
                                  status |-> StatusFailure, finalErr |-> e]]
    /\ pc' = [pc EXCEPT ![r] = "return"]
    /\ proc' = [proc EXCEPT ![r].starts = @ + 1]
    /\ UNCHANGED <<wctx, done>>

StartFails(r, e) ==
    /\ loc' = [loc EXCEPT ![r] = [path |-> "startfail", exitCode |-> -1,
                                  status |-> StatusFailure, finalErr |-> e]]
    /\ pc' = [pc EXCEPT ![r] = "lock"]
    /\ proc' = [proc EXCEPT ![r].starts = @ + 1]
    /\ UNCHANGED <<wctx, done>>

StartOK(r) ==
    /\ proc' = [proc EXCEPT ![r] = [st |-> "running", code |-> 0, starts |-> @.starts + 1]]
    /\ wctx' = [wctx EXCEPT ![r] = "armed"]
    /\ done' = [done EXCEPT ![r].st = "waiting"]
    /\ pc' = [pc EXCEPT ![r] = "select"]
    /\ UNCHANGED loc

Start(r) ==
    /\ ~crashed
    /\ pc[r] = "start"
    /\ IF ctx[r] # "live"
         THEN StartFails(r, ctx[r])
         ELSE StartFails(r, ErrSpawn) \/ StartOK(r)
    /\ UNCHANGED <<conf, shellVars, cbres, nextRun, ctx, atExpiry, sigs, ret, cb, crashed,
                   jobVars, rd>>

Exited(p, c) == [p EXCEPT !.st = "exited", !.code = c]

\* The command ends by itself with one of its exit codes.
ProcExit(r) ==
    /\ ~crashed
    /\ proc[r].st = "running"
    /\ \E c \in ExitCodes : proc' = [proc EXCEPT ![r] = Exited(@, c)]
    /\ UNCHANGED <<conf, shellVars, cbres, nextRun, pc, ctx, atExpiry, wctx, done, sigs, loc,
                   ret, cb, crashed, jobVars, rd>>

\* The command dies of the SIGTERM terminateProcess sent.
ProcTermDeath(r) ==
    /\ ~crashed
    /\ proc[r].st = "running"
    /\ \E i \in 1..Len(sigs[r]) : sigs[r][i] = "TERM"
    /\ proc' = [proc EXCEPT ![r] = Exited(@, Signaled)]
    /\ UNCHANGED <<conf, shellVars, cbres, nextRun, pc, ctx, atExpiry, wctx, done, sigs, loc,
                   ret, cb, crashed, jobVars, rd>>

\* SIGKILL ends a running process.
Killed(p) == IF p.st = "running" THEN Exited(p, Signaled) ELSE p

\* exec.CommandContext, line 100: once the context is done the Cmd kills the
\* process (os.Process.Kill). The kill succeeds on a process not yet reaped,
\* and then cmd.Wait reports ctx.Err() unless the process reports an error
\* of its own.
CtxKill(r) ==
    /\ ~crashed
    /\ wctx[r] = "armed"
    /\ ctx[r] \notin {"none", "live"}
    /\ proc[r].st \in {"running", "exited"}
    /\ wctx' = [wctx EXCEPT ![r] = "killed"]
    /\ proc' = [proc EXCEPT ![r] = Killed(proc[r])]
    /\ UNCHANGED <<conf, shellVars, cbres, nextRun, pc, ctx, atExpiry, done, sigs, loc, ret,
                   cb, crashed, jobVars, rd>>

\* What cmd.Wait returns for a process that has ended: cmd.ProcessState
\* and the error, an ExitError for an exit that is not a success, else
\* ctx.Err() when the kill of the context watcher went through, else nil.
WaitResult(r) ==
    [state |-> <<proc[r].code>>,
     err |-> IF proc[r].code # 0 THEN ErrExit
             ELSE IF wctx[r] = "killed" THEN ctx[r] ELSE Nil]

\* The watcher goroutine, lines 118-120: done <- cmd.Wait(). A caller parked
\* in the select is woken with the done case.
WatcherWait(r) ==
    /\ ~crashed
    /\ done[r].st = "waiting"
    /\ proc[r].st = "exited"
    /\ done' = [done EXCEPT ![r] = [st |-> "sent", state |-> WaitResult(r).state,
                                    err |-> WaitResult(r).err]]
    /\ proc' = [proc EXCEPT ![r].st = "reaped"]
    /\ wctx' = [wctx EXCEPT ![r] = "finished"]
    /\ pc' = [pc EXCEPT ![r] = IF pc[r] = "parked" THEN "completed" ELSE pc[r]]
    /\ UNCHANGED <<conf, shellVars, cbres, nextRun, ctx, atExpiry, sigs, loc, ret, cb,
                   crashed, jobVars, rd>>

\* The select of line 124: a ready case is taken, either one when both are
\* ready; with none ready the goroutine parks.
Select(r) ==
    /\ ~crashed
    /\ pc[r] = "select"
    /\ \/ /\ done[r].st = "sent"
          /\ pc' = [pc EXCEPT ![r] = "completed"]
       \/ /\ ctx[r] # "live"
          /\ pc' = [pc EXCEPT ![r] = "term"]
       \/ /\ done[r].st # "sent"
          /\ ctx[r] = "live"
          /\ pc' = [pc EXCEPT ![r] = "parked"]
    /\ UNCHANGED <<conf, shellVars, cbres, nextRun, ctx, atExpiry, proc, wctx, done, sigs,
                   loc, ret, cb, crashed, jobVars, rd>>

\* Lines 127-132.
ExitCodeOf(state, err) ==
    IF state # NoState THEN state[1]
    ELSE IF err # Nil THEN -1
    ELSE 0

StatusOfUnset(err) == IF err # Nil THEN StatusFailure ELSE StatusNA

\* Lines 134-137.
StatusOf(err) == IF err # Nil THEN StatusFailure ELSE StatusOK

\* case err = <-done, lines 125-140, up to the call of setJobResult.
Completed(r) ==
    /\ ~crashed
    /\ pc[r] = "completed"
    /\ done[r].st = "sent"
    /\ done' = [done EXCEPT ![r].st = "received"]
    /\ loc' = [loc EXCEPT ![r] = [path |-> "completed",
                                  exitCode |-> ExitCodeOf(done[r].state, done[r].err),
                                  status |-> StatusOf(done[r].err),
                                  finalErr |-> done[r].err]]
    /\ pc' = [pc EXCEPT ![r] = "lock"]
    /\ UNCHANGED <<conf, shellVars, cbres, nextRun, ctx, atExpiry, proc, wctx, sigs, ret, cb,
                   crashed, jobVars, rd>>

\* terminateProcess, lines 180-190: SIGTERM to the process group. The group is
\* there while the process is not reaped, and afterwards as long as it has
\* other members; when the signal fails, SIGKILL is sent at once.
Terminate(r) ==
    /\ ~crashed
    /\ pc[r] = "term"
    /\ \/ /\ sigs' = [sigs EXCEPT ![r] = Append(@, "TERM")]
          /\ pc' = [pc EXCEPT ![r] = "sleep"]
       \/ /\ proc[r].st = "reaped"
          /\ sigs' = [sigs EXCEPT ![r] = @ \o <<"TERM", "KILL">>]
          /\ pc' = [pc EXCEPT ![r] = "drain"]
    /\ UNCHANGED <<conf, shellVars, cbres, nextRun, ctx, atExpiry, proc, wctx, done, loc, ret,
                   cb, crashed, jobVars, rd>>

\* terminateProcess, lines 192-196: after the sleep of 100 ms, SIGKILL to the
\* process group.
ForceKill(r) ==
    /\ ~crashed
    /\ pc[r] = "sleep"
    /\ sigs' = [sigs EXCEPT ![r] = Append(@, "KILL")]
    /\ proc' = [proc EXCEPT ![r] = Killed(proc[r])]
    /\ pc' = [pc EXCEPT ![r] = "drain"]
    /\ UNCHANGED <<conf, shellVars, cbres, nextRun, ctx, atExpiry, wctx, done, loc, ret, cb,
                   crashed, jobVars, rd>>

DrainNoWait(r) ==
    /\ ~crashed
    /\ pc[r] = "drain"
    /\ loc' = [loc EXCEPT ![r] = [path |-> "deadline", exitCode |-> -1,
                                  status |-> StatusTimeout, finalErr |-> ctx[r]]]
    /\ pc' = [pc EXCEPT ![r] = "lock"]
    /\ UNCHANGED <<conf, shellVars, cbres, nextRun, ctx, atExpiry, proc, wctx, done,
                   sigs, ret, cb, crashed, jobVars, rd>>

\* case <-ctx.Done(), lines 145-148: <-done, then (-1, Timeout) and ctx.Err().
Drain(r) ==
    /\ ~crashed
    /\ pc[r] = "drain"
    /\ done[r].st = "sent"
    /\ done' = [done EXCEPT ![r].st = "received"]
    /\ loc' = [loc EXCEPT ![r] = [path |-> "deadline", exitCode |-> -1,
                                  status |-> StatusTimeout, finalErr |-> ctx[r]]]
    /\ pc' = [pc EXCEPT ![r] = "lock"]
    /\ UNCHANGED <<conf, shellVars, cbres, nextRun, ctx, atExpiry, proc, wctx, sigs, ret, cb,
                   crashed, jobVars, rd>>

NoLock == TRUE

\* sh.mtx.Lock() returns when no writer and no reader holds the mutex.
CanLock == mtx.w = 0 /\ mtx.r = 0

NoRLock == TRUE

\* sh.mtx.RLock() returns when no writer holds the mutex.
CanRLock == mtx.w = 0

\* Where Execute goes on after setJobResult: the start failure returns at
\* once (line 113), the other branches reach the callback dispatch.
AfterCommit(r) == IF loc[r].path = "startfail" THEN "return" ELSE "dispatch"

\* setJobResult, lines 169-177, a step for the Lock and one for each
\* assignment; the deferred Unlock goes with the last. The standard output
\* and standard error a run captured are identified with the run.
SetJobResult(r) ==
    /\ ~crashed
    /\ \/ /\ pc[r] = "lock"
          /\ CanLock
          /\ mtx' = [mtx EXCEPT !.w = r]
          /\ order' = [order EXCEPT ![r] = last.seq + 1]
          /\ last' = [seq |-> last.seq + 1, run |-> r,
                      exitCode |-> loc[r].exitCode, status |-> loc[r].status]
          /\ pc' = [pc EXCEPT ![r] = "set_stdout"]
          /\ UNCHANGED <<result, jobStatus>>
       \/ /\ pc[r] = "set_stdout"
          /\ result' = [result EXCEPT !.stdout = Field(r, order[r])]
          /\ pc' = [pc EXCEPT ![r] = "set_stderr"]
          /\ UNCHANGED <<mtx, jobStatus, order, last>>
       \/ /\ pc[r] = "set_stderr"
          /\ result' = [result EXCEPT !.stderr = Field(r, order[r])]
          /\ pc' = [pc EXCEPT ![r] = "set_exitCode"]
          /\ UNCHANGED <<mtx, jobStatus, order, last>>
       \/ /\ pc[r] = "set_exitCode"
          /\ result' = [result EXCEPT !.exitCode = Field(loc[r].exitCode, order[r])]
          /\ pc' = [pc EXCEPT ![r] = "set_status"]
          /\ UNCHANGED <<mtx, jobStatus, order, last>>
       \/ /\ pc[r] = "set_status"
          /\ jobStatus' = Field(loc[r].status, order[r])
          /\ mtx' = [mtx EXCEPT !.w = 0]
          /\ pc' = [pc EXCEPT ![r] = AfterCommit(r)]
          /\ UNCHANGED <<result, order, last>>
    /\ UNCHANGED <<conf, shellVars, cbres, nextRun, ctx, atExpiry, proc, wctx, done, sigs,
                   loc, ret, cb, crashed, rd>>

\* Lines 153-163: the callback goroutine is started when a callback is set;
\* it is given the job, of which the call has made commit number order[r].
Dispatch(r) ==
    /\ ~crashed
    /\ pc[r] = "dispatch"
    /\ cb' = [cb EXCEPT ![r] = IF hasCallback THEN "pending" ELSE @]
    /\ cbres' = [cbres EXCEPT ![r] = IF hasCallback
                                        THEN [NoCbRes EXCEPT !.pc = "idle", !.commit = order[r]]
                                        ELSE @]
    /\ pc' = [pc EXCEPT ![r] = "return"]
    /\ UNCHANGED <<conf, shellVars, nextRun, ctx, atExpiry, proc, wctx, done, sigs,
                   loc, ret, crashed, jobVars, rd>>

ReturnAfterCallback(r) ==
    /\ ~crashed
    /\ hasCallback => cb[r] \in {"returned", "panicked"}
    /\ pc[r] = "return"
    /\ ret' = [ret EXCEPT ![r] = loc[r].finalErr]
    /\ ctx' = [ctx EXCEPT ![r] = IF timeout > 0 /\ @ = "live" THEN ErrCanceled ELSE @]
    /\ pc' = [pc EXCEPT ![r] = "returned"]
    /\ atExpiry' = [atExpiry EXCEPT ![r] = "none"]
    /\ proc' = [proc EXCEPT ![r] = NoProc]
    /\ wctx' = [wctx EXCEPT ![r] = "none"]
    /\ done' = [done EXCEPT ![r] = NoDone]
    /\ sigs' = [sigs EXCEPT ![r] = <<>>]
    /\ loc' = [loc EXCEPT ![r] = NoLoc]
    /\ order' = [order EXCEPT ![r] = 0]
    /\ UNCHANGED <<conf, shellVars, cbres, nextRun, cb, crashed, mtx, result,
                   jobStatus, last, rd>>

\* return err (line 113) or return finalErr (line 165), and the deferred
\* cancel of line 97. The locals of the call (cmd, done, the buffers) are
\* gone with the return; the context stays with the callback.
Return(r) ==
    /\ ~crashed
    /\ pc[r] = "return"
    /\ ret' = [ret EXCEPT ![r] = loc[r].finalErr]
    /\ ctx' = [ctx EXCEPT ![r] = IF timeout > 0 /\ @ = "live" THEN ErrCanceled ELSE @]
    /\ pc' = [pc EXCEPT ![r] = "returned"]
    /\ atExpiry' = [atExpiry EXCEPT ![r] = "none"]
    /\ proc' = [proc EXCEPT ![r] = NoProc]
    /\ wctx' = [wctx EXCEPT ![r] = "none"]
    /\ done' = [done EXCEPT ![r] = NoDone]
    /\ sigs' = [sigs EXCEPT ![r] = <<>>]
    /\ loc' = [loc EXCEPT ![r] = NoLoc]
    /\ order' = [order EXCEPT ![r] = 0]
    /\ UNCHANGED <<conf, shellVars, cbres, nextRun, cb, crashed, mtx, result,
                   jobStatus, last, rd>>

\* The callback goroutine, lines 154-162: sh.callback(ctx, sh) is called,
\* and returns or panics; the deferred function recovers a panic.
CallbackStart(r) ==
    /\ ~crashed
    /\ cb[r] = "pending"
    /\ cb' = [cb EXCEPT ![r] = "running"]
    /\ UNCHANGED <<conf, shellVars, cbres, nextRun, pc, ctx, atExpiry, proc, wctx, done,
                   sigs, loc, ret, crashed, jobVars, rd>>

CallbackReturn(r) ==
    /\ ~crashed
    /\ cb[r] = "running"
    /\ cbres[r].pc \in {"idle", "read"}
    /\ cb' = [cb EXCEPT ![r] = "returned"]
    /\ cbres' = [cbres EXCEPT ![r] = NoCbRes]
    /\ UNCHANGED <<conf, shellVars, nextRun, pc, ctx, atExpiry, proc, wctx, done,
                   sigs, loc, ret, crashed, jobVars, rd>>

NoRecover == FALSE

\* The deferred function of lines 155-160 recovers the panic.
Recovers == TRUE

CallbackPanic(r) ==
    /\ ~crashed
    /\ cb[r] = "running"
    /\ cbres[r].pc \in {"idle", "read"}
    /\ cb' = [cb EXCEPT ![r] = "panicked"]
    /\ cbres' = [cbres EXCEPT ![r] = NoCbRes]
    /\ crashed' = ~Recovers
    /\ UNCHANGED <<conf, shellVars, nextRun, pc, ctx, atExpiry, proc, wctx, done,
                   sigs, loc, ret, jobVars, rd>>

\* A callback that calls Result() on the job it is given (lines 205-214),
\* once: RLock, the three fields copied, RUnlock with the return.
CallbackResult(r) ==
    /\ ~crashed
    /\ cb[r] = "running"
    /\ \/ /\ cbres[r].pc = "idle"
          /\ CanRLock
          /\ mtx' = [mtx EXCEPT !.r = @ + 1]
          /\ cbres' = [cbres EXCEPT ![r].pc = "get_exitCode"]
       \/ /\ cbres[r].pc = "get_exitCode"
          /\ cbres' = [cbres EXCEPT ![r].pc = "get_stdout", ![r].cur = <<result.exitCode>>]
          /\ UNCHANGED mtx
       \/ /\ cbres[r].pc = "get_stdout"
          /\ cbres' = [cbres EXCEPT ![r].pc = "get_stderr",
                                    ![r].cur = Append(@, result.stdout)]
          /\ UNCHANGED mtx
       \/ /\ cbres[r].pc = "get_stderr"
          /\ cbres' = [cbres EXCEPT ![r].pc = "read", ![r].cur = <<>>,
                                    ![r].got = [exitCode |-> cbres[r].cur[1],
                                                stdout |-> cbres[r].cur[2],
                                                stderr |-> result.stderr]]
          /\ mtx' = [mtx EXCEPT !.r = @ - 1]
    /\ UNCHANGED <<conf, shellVars, nextRun, pc, ctx, atExpiry, proc, wctx, done,
                   sigs, loc, ret, cb, crashed, result, jobStatus, order, last, rd>>

\* A goroutine that reads the job while Execute calls run. It keeps what
\* its latest two accessor calls returned.
Record(acc, got) ==
    [pc |-> "idle", cur |-> <<>>, prev |-> rd.latest,
     latest |-> [acc |-> acc, got |-> got]]

CanRead == rd.pc = "idle"

\* ExitCode, Stdout, Stderr, JobStatus (lines 199-203, 216-232): RLock, one
\* field read, RUnlock.
ExitCode ==
    /\ ~crashed
    /\ CanRead
    /\ CanRLock
    /\ rd' = Record("ExitCode", [exitCode |-> result.exitCode])
    /\ UNCHANGED <<conf, shellVars, cbres, nextRun, pc, ctx, atExpiry, proc, wctx, done,
                   sigs, loc, ret, cb, crashed, jobVars>>

Stdout ==
    /\ ~crashed
    /\ CanRead
    /\ CanRLock
    /\ rd' = Record("Stdout", [stdout |-> result.stdout])
    /\ UNCHANGED <<conf, shellVars, cbres, nextRun, pc, ctx, atExpiry, proc, wctx, done,
                   sigs, loc, ret, cb, crashed, jobVars>>

Stderr ==
    /\ ~crashed
    /\ CanRead
    /\ CanRLock
    /\ rd' = Record("Stderr", [stderr |-> result.stderr])
    /\ UNCHANGED <<conf, shellVars, cbres, nextRun, pc, ctx, atExpiry, proc, wctx, done,
                   sigs, loc, ret, cb, crashed, jobVars>>

JobStatus ==
    /\ ~crashed
    /\ CanRead
    /\ CanRLock
    /\ rd' = Record("JobStatus", [status |-> jobStatus])
    /\ UNCHANGED <<conf, shellVars, cbres, nextRun, pc, ctx, atExpiry, proc, wctx, done,
                   sigs, loc, ret, cb, crashed, jobVars>>

\* Result, lines 205-214: RLock, the three fields copied in the order of the
\* composite literal, RUnlock with the return.
Result ==
    /\ ~crashed
    /\ \/ /\ CanRead
          /\ CanRLock
          /\ mtx' = [mtx EXCEPT !.r = @ + 1]
          /\ rd' = [rd EXCEPT !.pc = "get_exitCode"]
       \/ /\ rd.pc = "get_exitCode"
          /\ rd' = [rd EXCEPT !.pc = "get_stdout", !.cur = <<result.exitCode>>]
          /\ UNCHANGED mtx
       \/ /\ rd.pc = "get_stdout"
          /\ rd' = [rd EXCEPT !.pc = "get_stderr", !.cur = Append(@, result.stdout)]
          /\ UNCHANGED mtx
       \/ /\ rd.pc = "get_stderr"
          /\ rd' = Record("Result", [exitCode |-> rd.cur[1], stdout |-> rd.cur[2],
                                      stderr |-> result.stderr])
          /\ mtx' = [mtx EXCEPT !.r = @ - 1]
    /\ UNCHANGED <<conf, shellVars, cbres, nextRun, pc, ctx, atExpiry, proc, wctx, done,
                   sigs, loc, ret, cb, crashed, result, jobStatus, order, last>>

Next ==
    \E r \in Runs :
        \/ Call(r) \/ TimeoutExpire(r) \/ CallerCancel(r) \/ GetShell(r) \/ Start(r)
        \/ ProcExit(r) \/ ProcTermDeath(r) \/ CtxKill(r) \/ WatcherWait(r)
        \/ Select(r) \/ Completed(r) \/ Terminate(r) \/ ForceKill(r)
        \/ Drain(r) \/ SetJobResult(r) \/ Dispatch(r) \/ Return(r)
        \/ CallbackStart(r) \/ CallbackReturn(r) \/ CallbackPanic(r)

\* Execute calls made one after the other on one job, each with its
\* process, its context and its goroutines.
Spec == Init /\ [][Next]_vars

\* The same with two calls in flight at a time.
ConcurrentSpec == InitConcurrent /\ [][Next]_vars

\* Execute called by as many goroutines as there are calls, each call up to
\* the shell getShell returns to it.
InitShell == NewShellJob /\ callers = MaxRuns /\ NoCalls /\ NoCron

NextShell == \E r \in Runs : Call(r) \/ CallerCancel(r) \/ GetShell(r)

ShellSpec == InitShell /\ [][NextShell]_vars

\* The arguments of setJobResult on the three branches of Execute, one case
\* for each: the start failure (line 112), a clean exit (line 139), the
\* deadline (line 147).
CommitCases ==
    { [path |-> "startfail", exitCode |-> -1, status |-> StatusFailure,
       finalErr |-> ErrSpawn],
      [path |-> "completed", exitCode |-> ExitCodeOf(<<0>>, Nil),
       status |-> StatusOf(Nil), finalErr |-> Nil],
      [path |-> "deadline", exitCode |-> -1, status |-> StatusTimeout,
       finalErr |-> ErrDeadline] }

\* The process of a call that has reached setJobResult with the arguments
\* a, and its done channel: none on the start failure, else reaped and
\* received, with the exit code committed or ended by the kill.
ProcAtCommit(a) ==
    [st |-> IF a.path = "startfail" THEN "none" ELSE "reaped",
     code |-> IF a.path = "completed" THEN a.exitCode
              ELSE IF a.path = "deadline" THEN Signaled ELSE 0,
     starts |-> 1]

DoneAtCommit(a) ==
    IF a.path = "startfail" THEN NoDone
    ELSE [st |-> "received",
          state |-> <<ProcAtCommit(a).code>>,
          err |-> IF a.path = "completed" THEN a.finalErr ELSE ErrExit]

\* Execute calls made at the same time by as many goroutines, from the
\* moment each has reached its setJobResult, on a job without callback, and
\* a goroutine that reads the job.
AllAtCommit ==
    /\ NewShellJob
    /\ NoCron
    /\ shellOnce = [done |-> TRUE, m |-> 0, lookups |-> 1]
    /\ shellPath = "bash"
    /\ shell = [r \in Runs |-> shellPath]
    /\ callers = MaxRuns
    /\ nextRun = MaxRuns
    /\ pc = [r \in Runs |-> "lock"]
    /\ loc \in [Runs -> CommitCases]
    /\ ctx = [r \in Runs |-> IF loc[r].path = "deadline" THEN loc[r].finalErr ELSE "live"]
    /\ atExpiry = [r \in Runs |-> IF loc[r].path = "deadline" THEN "running" ELSE "none"]
    /\ proc = [r \in Runs |-> ProcAtCommit(loc[r])]
    /\ wctx = [r \in Runs |-> IF loc[r].path = "startfail" THEN "none" ELSE "finished"]
    /\ done = [r \in Runs |-> DoneAtCommit(loc[r])]
    /\ sigs = [r \in Runs |-> IF loc[r].path = "deadline" THEN <<"TERM", "KILL">> ELSE <<>>]

InitCommit == AllAtCommit /\ ~hasCallback

NextCommit ==
    \/ \E r \in Runs : SetJobResult(r) \/ Dispatch(r) \/ Return(r)
    \/ ExitCode \/ Stdout \/ Stderr \/ JobStatus \/ Result

CommitSpec == InitCommit /\ [][NextCommit]_vars

\* Execute calls made at the same time on a job with a callback, from the
\* moment each has reached its setJobResult; the callback calls Result().
InitCallback == AllAtCommit /\ hasCallback

NextCallback ==
    \E r \in Runs :
        \/ SetJobResult(r) \/ Dispatch(r) \/ Return(r)
        \/ CallbackStart(r) \/ CallbackResult(r) \/ CallbackReturn(r) \/ CallbackPanic(r)

CallbackSpec == InitCallback /\ [][NextCallback]_vars

\* The same, with the scheduling of Go: a goroutine that called Execute
\* goes on while it has a step to take. Nothing is required of the
\* callbacks, which may block for ever.
FairSpec ==
    /\ CallbackSpec
    /\ \A r \in Runs : WF_vars(Dispatch(r)) /\ WF_vars(Return(r))


----------------------------------------------------------------------------
(***************************************************************************)
(* CronTrigger (package quartz): NextFireTime over the schedule that       *)
(* cron.Parser.Parse of robfig/cron/v3 compiled, in the UTC location of    *)
(* NewCronTrigger.                                                         *)
(***************************************************************************)

\* int64 epoch milliseconds, compared.
Less(a, b) == a.min < b.min \/ (a.min = b.min /\ a.ms < b.ms)
IsPositive(a) == Less(Instant(0, 0), a)

\* The calendar of package time.
IsLeap(y) == (y % 4 = 0 /\ y % 100 # 0) \/ y % 400 = 0
DaysIn(y, mo) ==
    IF mo = 2 THEN (IF IsLeap(y) THEN 29 ELSE 28)
    ELSE IF mo \in {4, 6, 9, 11} THEN 30 ELSE 31

\* Days since 1970-01-01 of a date, and the date of a day.
DaysFromCivil(y, mo, d) ==
    LET y2 == IF mo <= 2 THEN y - 1 ELSE y
        era == y2 \div 400
        yoe == y2 - era * 400
        mp == IF mo > 2 THEN mo - 3 ELSE mo + 9
        doy == (153 * mp + 2) \div 5 + d - 1
        doe == yoe * 365 + yoe \div 4 - yoe \div 100 + doy
    IN  era * 146097 + doe - 719468

CivilFromDays(z) ==
    LET z2 == z + 719468
        era == z2 \div 146097
        doe == z2 - era * 146097
        yoe == (doe - doe \div 1460 + doe \div 36524 - doe \div 146096) \div 365
        doy == doe - (365 * yoe + yoe \div 4 - yoe \div 100)
        mp == (5 * doy + 2) \div 153
        mo == IF mp < 10 THEN mp + 3 ELSE mp - 9
    IN  [y |-> IF mo <= 2 THEN yoe + era * 400 + 1 ELSE yoe + era * 400,
         mo |-> mo,
         d |-> doy - (153 * mp + 2) \div 5 + 1]

\* time.Weekday: Sunday is 0; 1970-01-01 was a Thursday.
Weekday(z) == (z + 4) % 7

\* time.Date(...).UnixMilli() in UTC.
Date(y, mo, d, h, mi, ms) == Instant((DaysFromCivil(y, mo, d) * 24 + h) * 60 + mi, ms)

\* time.UnixMilli(v).In(time.UTC): the fields of the time.
In(v) ==
    LET c == CivilFromDays(v.min \div 1440)
    IN  [y |-> c.y, mo |-> c.mo, d |-> c.d, h |-> (v.min % 1440) \div 60,
         mi |-> v.min % 60, s |-> v.ms \div 1000, ms |-> v.ms % 1000]

\* t.UnixMilli()
UnixMilli(t) ==
    Instant((DaysFromCivil(t.y, t.mo, t.d) * 24 + t.h) * 60 + t.mi, t.s * 1000 + t.ms)

\* time.Time{} and IsZero.
ZeroTime == [y |-> 1, mo |-> 1, d |-> 1, h |-> 0, mi |-> 0, s |-> 0, ms |-> 0]
IsZero(t) == t = ZeroTime

\* t.AddDate(0, 1, 0) of a first of the month, t.AddDate(0, 0, 1),
\* t.Add(time.Hour), t.Add(time.Minute), t.Add(time.Second).
AddMonth(t) ==
    IF t.mo = 12 THEN [t EXCEPT !.y = @ + 1, !.mo = 1] ELSE [t EXCEPT !.mo = @ + 1]
AddDay(t) ==
    IF t.d < DaysIn(t.y, t.mo) THEN [t EXCEPT !.d = @ + 1]
    ELSE AddMonth([t EXCEPT !.d = 1])
AddHour(t) == IF t.h < 23 THEN [t EXCEPT !.h = @ + 1] ELSE AddDay([t EXCEPT !.h = 0])
AddMinute(t) == IF t.mi < 59 THEN [t EXCEPT !.mi = @ + 1] ELSE AddHour([t EXCEPT !.mi = 0])
AddSecond(t) == IF t.s < 59 THEN [t EXCEPT !.s = @ + 1] ELSE AddMinute([t EXCEPT !.s = 0])

\* A compiled schedule: the values each field allows, whether the
\* day-of-month and the day-of-week were given as *, and for an @every
\* schedule its delay in seconds.
Schedule(minute, hour, dom, month, dow, domStar, dowStar) ==
    [kind |-> "spec", minute |-> minute, hour |-> hour, dom |-> dom, month |-> month,
     dow |-> dow, domStar |-> domStar, dowStar |-> dowStar, delay |-> 0]
Every(delay) ==
    [kind |-> "every", minute |-> {}, hour |-> {}, dom |-> {}, month |-> {},
     dow |-> {}, domStar |-> FALSE, dowStar |-> FALSE, delay |-> delay]

\* The cron expressions given to NewCronTrigger.
Expressions ==
    {"*/15 * * * *", "0 9 * * 1-5", "0 0 29-31 2 *", "0 9 1-7 1,4,7,10 1",
     "0 0 30 2 *", "@every 90s"}

\* parser.Parse(expression), lines 33-37: minute, hour, day of month, month,
\* day of week, and the descriptors.
Parse(expression) ==
    CASE expression = "*/15 * * * *" ->
            Schedule({0, 15, 30, 45}, 0..23, 1..31, 1..12, 0..6, TRUE, TRUE)
      [] expression = "0 9 * * 1-5" ->
            Schedule({0}, {9}, 1..31, 1..12, 1..5, TRUE, FALSE)
      [] expression = "0 0 29-31 2 *" ->
            Schedule({0}, {0}, 29..31, {2}, 0..6, FALSE, TRUE)
      [] expression = "0 9 1-7 1,4,7,10 1" ->
            Schedule({0}, {9}, 1..7, {1, 4, 7, 10}, {1}, FALSE, FALSE)
      [] expression = "0 0 30 2 *" ->
            Schedule({0}, {0}, {30}, {2}, 0..6, FALSE, TRUE)
      [] expression = "@every 90s" -> Every(90)

\* dayMatches of cron.SpecSchedule: with a * in one of the two day fields
\* both must match, else one of them.
DayMatches(sch, t) ==
    LET domMatch == t.d \in sch.dom
        dowMatch == Weekday(DaysFromCivil(t.y, t.mo, t.d)) \in sch.dow
    IN  IF sch.domStar \/ sch.dowStar THEN domMatch /\ dowMatch
        ELSE domMatch \/ dowMatch

Min(S) == CHOOSE x \in S : \A y \in S : x <= y

\* The search of cron.SpecSchedule.Next from the label WRAP. The loop of the
\* first field that does not match is run to its end: the field goes to its
\* next matching value, or wraps, and then the search starts again at WRAP.
\* The fields below are set to their start the first time a field is
\* incremented. The result is zero after the year limit. The second field of
\* a 5-field expression is 0.
RECURSIVE Wrap(_, _, _, _)
Wrap(sch, t, added, yearLimit) ==
    IF t.y > yearLimit THEN ZeroTime
    ELSE IF t.mo \notin sch.month
        THEN LET t1 == IF added THEN t ELSE [t EXCEPT !.d = 1, !.h = 0, !.mi = 0, !.s = 0]
                 later == {mo \in sch.month : mo > t.mo}
             IN  IF later = {}
                   THEN Wrap(sch, [t1 EXCEPT !.y = @ + 1, !.mo = 1], TRUE, yearLimit)
                   ELSE Wrap(sch, [t1 EXCEPT !.mo = Min(later)], TRUE, yearLimit)
    ELSE IF ~DayMatches(sch, t)
        THEN LET t1 == IF added THEN t ELSE [t EXCEPT !.h = 0, !.mi = 0, !.s = 0]
                 later == {d \in (t.d + 1)..DaysIn(t.y, t.mo) :
                              DayMatches(sch, [t1 EXCEPT !.d = d])}
             IN  IF later = {}
                   THEN Wrap(sch, AddMonth([t1 EXCEPT !.d = 1]), TRUE, yearLimit)
                   ELSE Wrap(sch, [t1 EXCEPT !.d = Min(later)], TRUE, yearLimit)
    ELSE IF t.h \notin sch.hour
        THEN LET t1 == IF added THEN t ELSE [t EXCEPT !.mi = 0, !.s = 0]
                 later == {h \in sch.hour : h > t.h}
             IN  IF later = {}
                   THEN Wrap(sch, AddDay([t1 EXCEPT !.h = 0]), TRUE, yearLimit)
                   ELSE Wrap(sch, [t1 EXCEPT !.h = Min(later)], TRUE, yearLimit)
    ELSE IF t.mi \notin sch.minute
        THEN LET t1 == IF added THEN t ELSE [t EXCEPT !.s = 0]
                 later == {mi \in sch.minute : mi > t.mi}
             IN  IF later = {}
                   THEN Wrap(sch, AddHour([t1 EXCEPT !.mi = 0]), TRUE, yearLimit)
                   ELSE Wrap(sch, [t1 EXCEPT !.mi = Min(later)], TRUE, yearLimit)
    ELSE IF t.s # 0
        THEN Wrap(sch, AddMinute([t EXCEPT !.s = 0]), TRUE, yearLimit)
    ELSE t

\* The years cron.SpecSchedule.Next searches after the year of the base.
YearLimit == 5

\* cron.SpecSchedule.Next: from the second after t, nanoseconds dropped.
SpecScheduleNext(sch, t) ==
    LET start == AddSecond([t EXCEPT !.ms = 0])
    IN  Wrap(sch, start, FALSE, start.y + YearLimit)

\* v plus n seconds.
PlusSeconds(v, n) ==
    Instant(v.min + (v.ms + n * 1000) \div 60000, (v.ms + n * 1000) % 60000)

\* cron.ConstantDelaySchedule.Next: t plus the delay, nanoseconds dropped.
ConstantDelayNext(sch, t) == In(PlusSeconds(UnixMilli([t EXCEPT !.ms = 0]), sch.delay))

\* ct.schedule.Next(baseTime), line 58.
ScheduleNext(sch, t) ==
    IF sch.kind = "every" THEN ConstantDelayNext(sch, t) ELSE SpecScheduleNext(sch, t)

\* The error of line 61 and the -1 it goes with.
ErrNoNext == "no next fire time"
MinusOne == Instant(-1, 59999)

BaseTimeNow(prev, now) == now

\* Lines 52-56: now when prev <= 0, else prev.
BaseTime(prev, now) == IF ~IsPositive(prev) THEN now ELSE prev

\* NextFireTime, lines 49-65.
NextFireTimeOf(expression, prev, now) ==
    LET nextTime == ScheduleNext(Parse(expression), In(BaseTime(prev, now)))
    IN  IF IsZero(nextTime) THEN [next |-> MinusOne, err |-> ErrNoNext]
        ELSE [next |-> UnixMilli(nextTime), err |-> Nil]

\* Bound: NextFireTime calls made on the trigger, each after the first with
\* the result of the one before as prev.
MaxChain == 3

\* The prev of a first call, and the times time.Now() returns.
PrevInputs ==
    {Instant(0, 0), MinusOne,
     Date(2024, 1, 1, 12, 0, 0), Date(2024, 1, 1, 9, 0, 0), Date(2024, 1, 1, 8, 59, 59999),
     Date(2024, 1, 5, 12, 0, 0), Date(2024, 2, 29, 0, 0, 0), Date(2023, 3, 1, 0, 0, 1),
     Date(2097, 3, 1, 0, 0, 0), Date(2024, 12, 31, 23, 59, 59000)}
Nows == {Date(2024, 1, 1, 12, 0, 500), Date(2024, 6, 15, 10, 30, 0)}

\* No ShellJob is built.
NoJob ==
    /\ job = "none"
    /\ cmd = ""
    /\ timeout = 0
    /\ hasCallback = FALSE
    /\ cbres = [r \in Runs |-> NoCbRes]
    /\ crashed = FALSE
    /\ mtx = [w |-> 0, r |-> 0]
    /\ result = [stdout |-> Field(0, 0), stderr |-> Field(0, 0),
                 exitCode |-> Field(0, 0)]
    /\ jobStatus = Field(StatusNA, 0)
    /\ order = [r \in Runs |-> 0]
    /\ last = [seq |-> 0, run |-> 0, exitCode |-> 0, status |-> StatusNA]
    /\ cb = [r \in Runs |-> "none"]
    /\ ret = [r \in Runs |-> "none"]
    /\ rd = [pc |-> "idle", cur |-> <<>>, prev |-> NoRead, latest |-> NoRead]

\* NewCronTrigger, lines 19-47, with an expression that parses.
NewCronTrigger ==
    \E e \in Expressions : ct = [NoTrigger EXCEPT !.expression = e]

InitCron == NoJob /\ callers = 0 /\ NoCalls /\ NewCronTrigger

\* A NextFireTime call: the first with any prev, a later one with the
\* result of the call before.
NextFireTime ==
    /\ ct.expression # ""
    /\ ct.calls < MaxChain
    /\ \E prev \in IF ct.calls = 0 THEN PrevInputs ELSE {ct.next} :
       \E now \in Nows :
          ct' = [expression |-> ct.expression, calls |-> ct.calls + 1,
                 prev |-> prev, now |-> now,
                 next |-> NextFireTimeOf(ct.expression, prev, now).next,
                 err |-> NextFireTimeOf(ct.expression, prev, now).err]
    /\ UNCHANGED <<job, cmd, timeout, hasCallback, callers, shellVars, cbres, nextRun,
                   pc, ctx, atExpiry, proc, wctx, done, sigs, loc, ret, cb, crashed,
                   jobVars, rd>>

NextCron == NextFireTime

CronSpec == InitCron /\ [][NextCron]_vars

----------------------------------------------------------------------------
(***************************************************************************)
(* The construction of the ShellJob, and the Execute calls on the job it   *)
(* gives.                                                                  *)
(***************************************************************************)

NeverEmpty(c) == FALSE

\* Line 35: cmd == "".
IsEmpty(c) == c = ""

WithTimeoutAny(cur, t) == t

\* WithTimeout, lines 54-60: the timeout of the job after the option.
WithTimeout(cur, t) == IF t > 0 THEN t ELSE cur

\* The options given to NewShellJob: WithCallback or not, WithTimeout with a
\* duration or not.
Options == [callback : BOOLEAN, timeout : {<<>>} \cup {<<t>> : t \in TimeoutOpts}]

\* NewShellJob, lines 34-50: the panic on the empty command, which leaves
\* the caller without a job; else the job with JobTimeout, and the options
\* applied to it.
NewShellJobCall ==
    /\ job = "none"
    /\ \E c \in Commands : \E opts \in Options :
          IF IsEmpty(c)
            THEN /\ job' = "panicked"
                 /\ UNCHANGED <<cmd, timeout, hasCallback>>
            ELSE /\ job' = "built"
                 /\ cmd' = c
                 /\ timeout' = IF opts.timeout = <<>> THEN JobTimeout
                                ELSE WithTimeout(JobTimeout, opts.timeout[1])
                 /\ hasCallback' = opts.callback
    /\ UNCHANGED <<callers, ct, shellVars, cbres, nextRun, pc, ctx, atExpiry, proc, wctx,
                   done, sigs, loc, ret, cb, crashed, jobVars, rd>>

InitBuild == NoJob /\ callers = 1 /\ NoCalls /\ NoCron

NextBuild == NewShellJobCall \/ Next

\* NewShellJob is called, and Execute is called on the job, a call after
\* the other.
BuildSpec == InitBuild /\ [][NextBuild]_vars

----------------------------------------------------------------------------
\* Positions of a call between the choice of its branch and its return.
Committing == {"lock", "set_stdout", "set_stderr", "set_exitCode", "set_status",
               "dispatch", "return"}

\* C3: a call whose timeout expired while its command was running commits
\* (-1, Timeout) and returns the deadline error.
C3_TimeoutCommitsTimeout ==
    \A r \in Runs :
        (pc[r] = "return" /\ ctx[r] = ErrDeadline /\ atExpiry[r] = "running")
            => /\ loc[r].status = StatusTimeout
               /\ loc[r].exitCode = -1
               /\ loc[r].finalErr = ErrDeadline

\* C4: once Execute has returned on a job with a callback, the callback of
\* that call has been started, on the start failure as on the other branches.
C4_CallbackEveryCall ==
    \A r \in Runs : (pc[r] = "returned" /\ hasCallback) => cb[r] # "none"

\* C5: from the commit to the return of a call, the watcher it launched has
\* delivered its result and ended, and the process it started is reaped.
C5_WatcherJoined ==
    \A r \in Runs :
        pc[r] \in Committing
            => /\ done[r].st \in {"none", "received"}
               /\ proc[r].st \in {"none", "reaped"}
               /\ loc[r].path # "startfail" => done[r].st = "received"

C5_Witness ==
    \E r \in Runs :
        /\ pc[r] = "return"
        /\ loc[r].path = "deadline"
        /\ sigs[r] = <<"TERM", "KILL">>
        /\ proc[r].st = "reaped"

\* C7: on the completion branch a process that exited with 0 gives (0, OK)
\* and nil, any other gives Failure with the exit code of the process and a
\* non-nil error; the error returned is nil exactly when the status is OK.
C7_CleanExitIsOK ==
    \A r \in Runs :
        (pc[r] = "return" /\ loc[r].path = "completed")
            => /\ proc[r].code = 0
                    => /\ loc[r].status = StatusOK
                       /\ loc[r].exitCode = 0
                       /\ loc[r].finalErr = Nil
               /\ proc[r].code # 0
                    => /\ loc[r].status = StatusFailure
                       /\ loc[r].exitCode = proc[r].code
                       /\ loc[r].finalErr # Nil
               /\ loc[r].finalErr = Nil <=> loc[r].status = StatusOK

\* C8: a call whose context the caller cancelled while its command was
\* running commits (-1, Timeout) and leaves no process.
C8_CancelCommitsTimeout ==
    \A r \in Runs :
        (pc[r] = "return" /\ ctx[r] = ErrCanceled /\ atExpiry[r] = "running")
            => /\ loc[r].status = StatusTimeout
               /\ loc[r].exitCode = -1
               /\ proc[r].st = "reaped"

\* C9: a step in which a callback panics leaves the program running, and
\* leaves every call where it is, with its locals and the value it returned,
\* and the result and status of the job as they are.
C9_PanicIsolated ==
    [][\A r \in Runs :
          (cb[r] = "running" /\ cb'[r] = "panicked")
              => /\ ~crashed'
                 /\ pc' = pc /\ loc' = loc /\ ret' = ret
                 /\ result' = result /\ jobStatus' = jobStatus]_vars

C9_Witness ==
    \E r \in Runs :
        /\ cb[r] = "panicked"
        /\ pc[r] = "returned"
        /\ ~crashed
        /\ nextRun = r + 1
        /\ pc[r + 1] = "return"

\* C10: a call whose cmd.Start failed commits (-1, Failure) and goes to its
\* return with the error of Start: one Start, no watcher, no signal, no
\* process, no callback dispatch. At its return its commit is made, and
\* the job holds (-1, Failure) unless a later commit has replaced it.
C10_StartFailure ==
    \A r \in Runs :
        loc[r].path = "startfail"
            => /\ pc[r] \in Committing \ {"dispatch"}
               /\ loc[r].exitCode = -1 /\ loc[r].status = StatusFailure
               /\ loc[r].finalErr \in {ErrSpawn, ErrDeadline, ErrCanceled}
               /\ proc[r] = [st |-> "none", code |-> 0, starts |-> 1]
               /\ done[r] = NoDone /\ wctx[r] = "none" /\ sigs[r] = <<>>
               /\ pc[r] = "return"
                    => /\ order[r] > 0
                       /\ jobStatus.by = order[r] => jobStatus.v = StatusFailure
                       /\ result.exitCode.by = order[r] => result.exitCode.v = -1

C10_Witness ==
    \E r \in Runs :
        /\ pc[r] = "return"
        /\ loc[r].path = "startfail"
        /\ loc[r].finalErr = ErrSpawn
        /\ r > 1
        /\ jobStatus = Field(StatusFailure, order[r])
        /\ result.exitCode = Field(-1, order[r])

\* C11: a call that has committed and reached the callback dispatch
\* returns, whatever its callback does, a callback that never returns
\* included.
C11_ReturnNotWaiting ==
    \A r \in Runs : (pc[r] \in {"dispatch", "return"}) ~> (pc[r] = "returned")

C11_Witness ==
    \E r \in Runs :
        /\ pc[r] = "returned"
        /\ cb[r] = "running"
        /\ ret[r] = Nil
        /\ nextRun = MaxRuns
        /\ \A q \in Runs : pc[q] = "returned"

----------------------------------------------------------------------------
\* The numbers of the commits whose writes an accessor call returned.
Commits(read) == {read.got[f].by : f \in DOMAIN read.got}

Reads == {rd.prev, rd.latest}

\* C1: the three fields one Result call returned were written by one
\* commit, or are the fields NewShellJob set: the standard output and the
\* standard error are those of one run, and the exit code is the one the
\* same commit wrote.
C1_ResultOneCommit ==
    \A read \in Reads :
        read.acc = "Result"
            => /\ Cardinality(Commits(read)) = 1
               /\ read.got.stdout.v = read.got.stderr.v
               /\ read.got.stdout.by = 0
                    => read.got = [exitCode |-> Field(0, 0), stdout |-> Field(0, 0),
                                   stderr |-> Field(0, 0)]
               /\ read.got.stdout.by = last.seq
                    => /\ read.got.stdout.v = last.run
                       /\ read.got.exitCode.v = last.exitCode

C1_Witness ==
    /\ rd.latest.acc = "Result"
    /\ rd.latest.got.stdout.by = 1
    /\ \E r \in Runs : pc[r] = "set_exitCode" /\ order[r] = 2

\* C2 as claimed: the values of two accessor calls that come from runs come
\* from one run.
C2_SeparateCallsOneRun ==
    \A a \in Commits(rd.prev) : \A b \in Commits(rd.latest) :
        (rd.prev.acc # "none" /\ a # 0 /\ b # 0) => a = b

\* C2 amended: each accessor call returns the values of one commit, and a
\* later call never those of an earlier commit than the call before it; the
\* values of two calls may come from two runs.
C2_CallsInCommitOrder ==
    /\ \A read \in Reads : read.acc # "none" => Cardinality(Commits(read)) = 1
    /\ \A a \in Commits(rd.prev) : \A b \in Commits(rd.latest) : a <= b

C2_Witness ==
    /\ rd.prev.acc = "Stdout"
    /\ rd.latest.acc = "JobStatus"
    /\ rd.prev.got.stdout.by = 1
    /\ rd.latest.got.status.by = 2

AllReturned == \A r \in Runs : pc[r] = "returned"

\* C6: every call commits, and once all calls have returned the job holds
\* the exit code, the output and the status of the commit made last.
C6_LastCommitWins ==
    AllReturned
        => /\ last.seq = MaxRuns
           /\ result.stdout = Field(last.run, last.seq)
           /\ result.stderr = Field(last.run, last.seq)
           /\ result.exitCode = Field(last.exitCode, last.seq)
           /\ jobStatus = Field(last.status, last.seq)

C6_Witness ==
    /\ AllReturned
    /\ last.run = 1
    /\ jobStatus = Field(StatusTimeout, MaxRuns)
    /\ result.exitCode.v = -1

----------------------------------------------------------------------------
\* The base time of the latest NextFireTime call as the claims state it:
\* prev when prev > 0, else the current time.
ClaimedBase == IF IsPositive(ct.prev) THEN ct.prev ELSE ct.now

\* C12: a NextFireTime call that returns no error returns a time strictly
\* after prev when prev > 0, and strictly after the current time otherwise;
\* and of two calls in a row, the second with the result of the first as
\* prev, the second returns the later time.
C12_StrictlyIncreasing ==
    /\ [](ct.calls > 0 /\ ct.err = Nil => Less(ClaimedBase, ct.next))
    /\ [][(ct.calls > 0 /\ ct'.calls = ct.calls + 1 /\ ct.err = Nil /\ ct'.err = Nil)
             => Less(ct.next, ct'.next)]_vars

C12_Witness ==
    /\ ct.expression = "0 0 29-31 2 *"
    /\ ct.calls = 2
    /\ ct.prev = Date(2024, 2, 29, 0, 0, 0)
    /\ ct.err = Nil
    /\ ct.next = Date(2028, 2, 29, 0, 0, 0)

\* The minute m (minutes since the epoch) has a minute, hour, day of month,
\* month and day of week that the five fields all allow.
FieldsMatch(sch, m) ==
    LET z == m \div 1440
        c == CivilFromDays(z)
    IN  /\ m % 60 \in sch.minute
        /\ (m % 1440) \div 60 \in sch.hour
        /\ c.d \in sch.dom
        /\ c.mo \in sch.month
        /\ Weekday(z) \in sch.dow

\* Some month the expression allows has a day of month it allows (every
\* date falls on every day of the week in some year).
Occurs(sch) == \E mo \in sch.month : \E d \in sch.dom : d <= DaysIn(2024, mo)

\* C13: for a 5-field expression with an occurrence, NextFireTime returns
\* the earliest minute-aligned instant strictly after the base time whose
\* five fields all satisfy the expression, in whatever year it lies.
C13_EarliestMatch ==
    (ct.calls > 0 /\ Parse(ct.expression).kind = "spec" /\ Occurs(Parse(ct.expression)))
        => /\ ct.err = Nil
           /\ ct.next.ms = 0
           /\ ct.next.min > ClaimedBase.min
           /\ FieldsMatch(Parse(ct.expression), ct.next.min)
           /\ \A z \in (ClaimedBase.min \div 1440)..(ct.next.min \div 1440) :
              \A h \in Parse(ct.expression).hour :
              \A mi \in Parse(ct.expression).minute :
                  (/\ z * 1440 + h * 60 + mi > ClaimedBase.min
                   /\ z * 1440 + h * 60 + mi < ct.next.min)
                      => ~FieldsMatch(Parse(ct.expression), z * 1440 + h * 60 + mi)

\* The schedule has an occurrence after any time: an @every schedule
\* always, a 5-field schedule when some day matches in some year (with both
\* day fields restricted, a day of the week is enough).
HasFuture(sch) ==
    \/ sch.kind = "every"
    \/ ~sch.domStar /\ ~sch.dowStar
    \/ Occurs(sch)

\* C14: NextFireTime returns the negative sentinel and an error exactly
\* when the schedule has no occurrence after the base time, and else a
\* non-negative time and no error.
C14_ErrorIffExhausted ==
    ct.calls > 0
        => /\ ct.err # Nil <=> ~HasFuture(Parse(ct.expression))
           /\ ct.err # Nil => Less(ct.next, Instant(0, 0))
           /\ ct.err = Nil => ~Less(ct.next, Instant(0, 0))

----------------------------------------------------------------------------
\* C15: NewShellJob with an empty command panics, with no option applied
\* and no job for the caller; the job Execute is called on has a command
\* that is not empty.
C15_CommandNotEmpty ==
    /\ job = "built" => cmd # ""
    /\ nextRun > 0 => job = "built" /\ cmd # ""
    /\ job = "panicked" => ~hasCallback /\ timeout = 0 /\ cmd = "" /\ nextRun = 0

C15_Witness == job = "panicked" /\ nextRun = 0 /\ ~hasCallback

----------------------------------------------------------------------------
\* C16: terminateProcess sends SIGTERM alone first, and SIGKILL only after
\* the wait and only to a process that is still alive then.
C16_KillOnlyIfAlive ==
    [][\A r \in Runs :
          (sigs'[r] # sigs[r] /\ sigs'[r] # <<>>)
              => IF sigs[r] = <<>> THEN sigs'[r] = <<"TERM">>
                 ELSE /\ sigs[r] = <<"TERM">>
                      /\ sigs'[r] = <<"TERM", "KILL">>
                      /\ pc[r] = "sleep"
                      /\ proc[r].st = "running"]_vars

\* C17: the lookup of getShell runs at most once, a call that is past
\* shellOnce.Do finds it done, and all calls get the same path from getShell.
C17_ShellOnce ==
    /\ shellOnce.lookups <= 1
    /\ \A r \in Runs :
          /\ pc[r] = "shellRet" => shellOnce.done /\ shellOnce.lookups = 1
          /\ shell[r] # "none" => shellOnce.done /\ shell[r] = shellPath
    /\ \A r, q \in Runs : (shell[r] # "none" /\ shell[q] # "none") => shell[r] = shell[q]

C17_Witness ==
    \E r, q \in Runs :
        /\ r < q
        /\ shell[q] = "sh"
        /\ pc[r] = "shellRet"
        /\ shell[r] = "none"
        /\ shellOnce.lookups = 1

----------------------------------------------------------------------------
\* The status values a commit writes.
Outcomes == {StatusOK, StatusFailure, StatusTimeout}

\* C18: the status of the job is NA until the first commit has written it,
\* and OK, Failure or Timeout from then on: once a call is past its commit
\* the status is that of a commit, what JobStatus() returns is NA only
\* before the first commit, and a JobStatus() call after one that returned
\* an outcome returns an outcome.
C18_NotApplicableUntilCommit ==
    /\ jobStatus.by = 0 => jobStatus.v = StatusNA
    /\ jobStatus.by > 0 => jobStatus.v \in Outcomes
    /\ (\E r \in Runs : pc[r] \in {"dispatch", "return", "returned"}) => jobStatus.by > 0
    /\ \A read \in Reads :
          read.acc = "JobStatus"
              => IF read.got.status.by = 0 THEN read.got.status.v = StatusNA
                 ELSE read.got.status.v \in Outcomes
    /\ (/\ rd.prev.acc = "JobStatus" /\ rd.latest.acc = "JobStatus"
        /\ rd.prev.got.status.v # StatusNA)
            => rd.latest.got.status.v # StatusNA

C18_Witness ==
    /\ rd.prev.acc = "JobStatus"
    /\ rd.prev.got.status.v = StatusNA
    /\ rd.latest.acc = "JobStatus"
    /\ rd.latest.got.status.v = StatusOK
    /\ \E r \in Runs : pc[r] = "set_status"

----------------------------------------------------------------------------
\* C19: what the callback of a call reads with one Result() call was
\* written by one commit, that of its own call or a later one: the call's
\* own output when it is its own commit, never the fields NewShellJob set.
C19_CallbackSeesOwnOrLater ==
    \A r \in Runs :
        cbres[r].pc = "read"
            => /\ cbres[r].commit >= 1
               /\ Cardinality(Commits(cbres[r])) = 1
               /\ \A c \in Commits(cbres[r]) : c >= cbres[r].commit
               /\ cbres[r].got.stdout.by = cbres[r].commit
                    => cbres[r].got.stdout.v = r /\ cbres[r].got.stderr.v = r
               /\ cbres[r].got.stdout.by = last.seq
                    => /\ cbres[r].got.stdout.v = last.run
                       /\ cbres[r].got.exitCode.v = last.exitCode

C19_Witness ==
    \E r, q \in Runs :
        /\ cbres[r].pc = "read"
        /\ cbres[r].commit = 1
        /\ cbres[r].got.stdout = Field(q, 2)
        /\ cbres[q].pc = "read"
        /\ cbres[q].got.stdout = Field(q, 2)

----------------------------------------------------------------------------
\* C20: the job NewShellJob built has a timeout above 0, so the context of
\* a call, which its callback is given, is the one context.WithTimeout
\* derived; once the call has returned that context is done, for a callback
\* that runs still or has not started yet.
C20_CallbackContextDone ==
    /\ job = "built" => timeout > 0
    /\ \A r \in Runs :
          (pc[r] = "returned" /\ cb[r] \in {"pending", "running"})
              => ctx[r] \in {ErrDeadline, ErrCanceled}

C20_Witness ==
    \E r \in Runs :
        /\ pc[r] = "returned"
        /\ cb[r] = "running"
        /\ ret[r] = Nil
        /\ ctx[r] = ErrCanceled
        /\ timeout = 5
====
